---------------------------- MODULE Spec2Model ----------------------------
(***************************************************************************)
(* Model of GenerativeModelsMetrics/utils_func/MixtureDistributions.py:    *)
(* the eight mixture constructors and MixtureGaussian, the process-wide    *)
(* random state they reset and draw from, and the linear-algebra helpers   *)
(* transform_data, inverse_transform_data and is_pos_def.                  *)
(*                                                                         *)
(* Numbers.  A float drawn by np.random.sample lies in [0.0, 1.0); it is   *)
(* modelled by its numerator v in 0..RngMod-1 over the denominator RngMod. *)
(* Matrix arithmetic is exact integer arithmetic.                          *)
(*                                                                         *)
(* Arrays.  A numpy array is a record with shape |-> <<d1, ..., dk>> and   *)
(* flat |-> the entries in row-major (C) order, as numpy stores them.     *)
(***************************************************************************)
EXTENDS Integers, Sequences, FiniteSets, TLC

(***************************************************************************)
(* Bounds of the model.                                                    *)
(***************************************************************************)
MaxComp == 2
MaxDim == 2
MaxSeed == 3
MaxResetSeed == 12
RngMod == 8
MatSize == 2
MaxRows == 1

VARIABLES
    rng,        \* process-wide random state: [env, tf, np, py]
    lastCall,   \* the last operation of the single-threaded caller: [op, n, d, seed]
    result,     \* what that operation returned or raised
    drawn,      \* the locals loc, scale, probs of the last constructor call
    data,       \* linear algebra: the sample matrix handed to the helpers
    rotation,   \* linear algebra: the rotation argument
    x,          \* linear algebra: the argument of is_pos_def
    la_op,      \* linear algebra: the helpers applied so far, in order
    data_new,   \* linear algebra: what the last helper returned or raised
    dot_calls,  \* linear algebra: number of np.dot products computed so far
    pc,         \* threads: each thread's position in its constructor call
    targs,      \* threads: each thread's call arguments
    tlocals,    \* threads: each thread's locals loc, scale, probs
    lock,       \* threads: holder of the callers' external lock
    serialize   \* threads: whether the callers serialize their calls

vars == <<rng, lastCall, result, drawn, data, rotation, x, la_op, data_new,
          dot_calls, pc, targs, tlocals, lock, serialize>>

rngVars == <<rng, lastCall, result, drawn>>
laVars == <<data, rotation, x, la_op, data_new, dot_calls>>
thVars == <<pc, targs, tlocals, lock, serialize>>

(***************************************************************************)
(* Arrays                                                                  *)
(***************************************************************************)
RECURSIVE Prod(_)
Prod(shape) == IF shape = <<>> THEN 1 ELSE Head(shape) * Prod(Tail(shape))

Array(shape, flat) == [class |-> "ndarray", shape |-> shape, flat |-> flat]

NoArray == Array(<<0>>, <<>>)

\* a[i] of a 2-D array: row i as a 1-D array (i counted from 1)
Row(a, i) ==
    LET c == a.shape[2]
    IN  Array(<<c>>, [j \in 1..c |-> a.flat[(i - 1) * c + j]])

\* a * k, elementwise
Times(a, k) == Array(a.shape, [i \in 1..Len(a.flat) |-> a.flat[i] * k])

(***************************************************************************)
(* The random sources                                                      *)
(***************************************************************************)
Digit(k) == <<"0", "1", "2", "3", "4", "5", "6", "7", "8", "9">>[k + 1]

\* str(seed) of a non-negative int: its decimal digits, most significant first
RECURSIVE str(_)
str(n) == IF n < 10 THEN <<Digit(n)>> ELSE Append(str(n \div 10), Digit(n % 10))

\* int(s) of a string of decimal digits (the inverse the environment applies)
DigitValue(c) == CHOOSE k \in 0..9 : Digit(k) = c

RECURSIVE int(_)
int(s) ==
    IF Len(s) = 1 THEN DigitValue(s[1])
    ELSE 10 * int(SubSeq(s, 1, Len(s) - 1)) + DigitValue(s[Len(s)])

\* the generator state a seed selects
SeedState(seed) == seed % RngMod

\* one step of the generator
NextState(st) == (5 * st + 3) % RngMod

RECURSIVE Draws(_, _)
Draws(st, k) ==
    IF k = 0 THEN <<>> ELSE <<NextState(st)>> \o Draws(NextState(st), k - 1)

RECURSIVE Advance(_, _)
Advance(st, k) == IF k = 0 THEN st ELSE Advance(NextState(st), k - 1)

\* a seeding that leaves the generator as it was
np_random_seed_ignored(r, seed) == r

\* np.random.seed(seed) on the random state r
np_random_seed(r, seed) == [r EXCEPT !.np = SeedState(seed)]

\* tf.random.set_seed(seed)
tf_random_set_seed(r, seed) == [r EXCEPT !.tf = seed]

\* random.seed(seed)
random_seed(r, seed) == [r EXCEPT !.py = SeedState(seed)]

\* os.environ['PYTHONHASHSEED'] = str(seed)
set_PYTHONHASHSEED(r, seed) == [r EXCEPT !.env = str(seed)]

\* a sampler over the closed interval: every number drawn one step higher
np_random_sample_closed(r, shape) ==
    [arr |-> Array(shape, [i \in 1..Prod(shape) |-> Draws(r.np, Prod(shape))[i] + 1]),
     rng |-> [r EXCEPT !.np = Advance(r.np, Prod(shape))]]

\* np.random.sample(shape): [arr |-> the array drawn, rng |-> the state after]
np_random_sample(r, shape) ==
    [arr |-> Array(shape, Draws(r.np, Prod(shape))),
     rng |-> [r EXCEPT !.np = Advance(r.np, Prod(shape))]]

\* a reset that leaves numpy's generator as it was
reset_random_seeds_without_numpy(r, seed) ==
    random_seed(tf_random_set_seed(set_PYTHONHASHSEED(r, seed), seed), seed)

\* a reset that leaves the 'random' generator as it was
reset_random_seeds_without_random(r, seed) ==
    np_random_seed(tf_random_set_seed(set_PYTHONHASHSEED(r, seed), seed), seed)

reset_random_seeds(r, seed) ==
    random_seed(np_random_seed(tf_random_set_seed(set_PYTHONHASHSEED(r, seed), seed), seed), seed)

(***************************************************************************)
(* The distribution objects of tensorflow_probability, as the records of   *)
(* their constructor arguments.                                            *)
(***************************************************************************)
tfd_Normal(loc, scale) == [class |-> "Normal", loc |-> loc, scale |-> scale]

tfd_MultivariateNormalDiag(loc, scale_diag) ==
    [class |-> "MultivariateNormalDiag", loc |-> loc, scale_diag |-> scale_diag]

tfd_Categorical(probs) == [class |-> "Categorical", probs |-> probs]

tfd_Mixture(cat, components) ==
    [class |-> "Mixture", cat |-> cat, components |-> components,
     validate_args |-> TRUE]

tfd_MixtureSameFamily(mixture_distribution, components_distribution) ==
    [class |-> "MixtureSameFamily",
     mixture_distribution |-> mixture_distribution,
     components_distribution |-> components_distribution,
     validate_args |-> TRUE]

tfd_Independent(distribution) ==
    [class |-> "Independent", distribution |-> distribution,
     reinterpreted_batch_ndims |-> 0]

\* an exception leaving a function
Raise(kind) == [class |-> "Exception", kind |-> kind]

IsException(r) == r.class = "Exception"

\* the return value None
None == [class |-> "None"]

(***************************************************************************)
(* The mixture constructors                                                *)
(***************************************************************************)
\* a local variable: bound to a value, or only annotated
Bound(v) == [bound |-> TRUE, val |-> v]
Unbound == [bound |-> FALSE, val |-> <<>>]

\* reset_random_seeds(seed) and the three draws every constructor starts with;
\* wshape is the shape of probs
DrawParams(r, n, d, seed, wshape) ==
    LET r0 == reset_random_seeds(r, seed)
        s1 == np_random_sample(r0, <<n, d>>)
        s2 == np_random_sample(s1.rng, <<n, d>>)
        s3 == np_random_sample(s2.rng, wshape)
    IN  [loc |-> Times(s1.arr, 10), scale |-> s2.arr, probs |-> s3.arr,
         rng |-> s3.rng]

\* for i in range(n): components.append(Normal(loc=loc[i], scale=scale[i]))
NormalComponents(components, p, n) ==
    IF n = 0 THEN components
    ELSE IF ~components.bound THEN Raise("UnboundLocalError")
    ELSE Bound(components.val \o
               [i \in 1..n |-> tfd_Normal(Row(p.loc, i), Row(p.scale, i))])

\* for i in range(n): components.append(MultivariateNormalDiag(loc[i], scale[i]))
MultiNormalComponents(components, p, n) ==
    IF n = 0 THEN components
    ELSE IF ~components.bound THEN Raise("UnboundLocalError")
    ELSE Bound(components.val \o
               [i \in 1..n |-> tfd_MultivariateNormalDiag(Row(p.loc, i), Row(p.scale, i))])

\* what a constructor leaves: its return value or exception, the locals it
\* drew, and the random state after it
Outcome(ret, p) ==
    [ret |-> ret, loc |-> p.loc, scale |-> p.scale, probs |-> p.probs, rng |-> p.rng]

\* Mixture(cat = Categorical(probs), components = components), or the
\* exception raised while the list was built
MixtureOf(p, components) ==
    IF ~("bound" \in DOMAIN components) THEN components
    ELSE IF ~components.bound THEN Raise("UnboundLocalError")
    ELSE tfd_Mixture(tfd_Categorical(p.probs), components.val)

MixNormal1(r, n, d, seed) ==
    LET p == DrawParams(r, n, d, seed, <<d, n>>)
        components == NormalComponents(Bound(<<>>), p, n)
    IN  Outcome(MixtureOf(p, components), p)

MixNormal2(r, n, d, seed) ==
    LET p == DrawParams(r, n, d, seed, <<n>>)
    IN  Outcome(tfd_MixtureSameFamily(tfd_Categorical(p.probs),
                                      tfd_Normal(p.loc, p.scale)), p)

MixNormal1_indep(r, n, d, seed) ==
    LET p == DrawParams(r, n, d, seed, <<d, n>>)
        components == NormalComponents(Bound(<<>>), p, n)
        mix == MixtureOf(p, components)
    IN  Outcome(IF IsException(mix) THEN mix ELSE tfd_Independent(mix), p)

MixNormal2_indep(r, n, d, seed) ==
    LET p == DrawParams(r, n, d, seed, <<n>>)
    IN  Outcome(tfd_Independent(
                    tfd_MixtureSameFamily(tfd_Categorical(p.probs),
                                          tfd_Normal(p.loc, p.scale))), p)

MixMultiNormal1(r, n, d, seed) ==
    LET p == DrawParams(r, n, d, seed, <<n>>)
        components == MultiNormalComponents(Bound(<<>>), p, n)
    IN  Outcome(MixtureOf(p, components), p)

MixMultiNormal2(r, n, d, seed) ==
    LET p == DrawParams(r, n, d, seed, <<n>>)
    IN  Outcome(tfd_MixtureSameFamily(tfd_Categorical(p.probs),
                                      tfd_MultivariateNormalDiag(p.loc, p.scale)), p)

\* line 286 only annotates 'components': the name is never bound
MixMultiNormal1_indep(r, n, d, seed) ==
    LET p == DrawParams(r, n, d, seed, <<n>>)
        components == MultiNormalComponents(Unbound, p, n)
        mix == MixtureOf(p, components)
    IN  Outcome(IF IsException(mix) THEN mix ELSE tfd_Independent(mix), p)

MixMultiNormal2_indep(r, n, d, seed) ==
    LET p == DrawParams(r, n, d, seed, <<n>>)
    IN  Outcome(tfd_Independent(
                    tfd_MixtureSameFamily(tfd_Categorical(p.probs),
                                          tfd_MultivariateNormalDiag(p.loc, p.scale))), p)

\* an entry point that selects the MixtureSameFamily variant
MixtureGaussian_same_family(r, ncomp, ndims, seed) == MixMultiNormal2(r, ncomp, ndims, seed)

MixtureGaussian(r, ncomp, ndims, seed) == MixMultiNormal1(r, ncomp, ndims, seed)


\* sklearn's make_spd_matrix(n_dim, random_state = seed): for an int seed it
\* draws from a generator of its own, RandomState(seed), n_dim * n_dim
\* uniforms for A and n_dim more for the diagonal; the matrix it computes
\* from them by the singular value decomposition is kept as these uniforms
make_spd_matrix(n_dim, random_state) ==
    [class |-> "ndarray", of |-> "spd", shape |-> <<n_dim, n_dim>>,
     uniforms |-> Draws(SeedState(random_state), n_dim * n_dim + n_dim)]

\* a RandCorr that does not reseed numpy's global generator
RandCorr_without_seed(r, matrixSize, seed) ==
    [ret |-> [class |-> "ndarray", of |-> "Vnorm", size |-> matrixSize,
              random_state |-> SeedState(seed),
              V |-> make_spd_matrix(matrixSize, seed)],
     rng |-> r]

\* RandCorr(matrixSize, seed): np.random.seed(0), then V = make_spd_matrix
\* and its normalisation Dinv V Dinv (kept symbolic: a function of V)
RandCorr(r, matrixSize, seed) ==
    [ret |-> [class |-> "ndarray", of |-> "Vnorm", size |-> matrixSize,
              random_state |-> SeedState(seed),
              V |-> make_spd_matrix(matrixSize, seed)],
     rng |-> np_random_seed(r, 0)]

\* RandCov(std, seed): D corr D with corr = RandCorr(len(std), seed)
RandCov(r, std, seed) ==
    LET corr == RandCorr(r, Len(std), seed)
    IN  [ret |-> [class |-> "ndarray", of |-> "DVD", std |-> std, corr |-> corr.ret],
         rng |-> corr.rng]

(***************************************************************************)
(* The single-threaded caller                                              *)
(***************************************************************************)
Components == 1..MaxComp
Dimensions == 1..MaxDim
Seeds == 0..MaxSeed
ResetSeeds == 0..MaxResetSeed
States == 0..(RngMod - 1)

Constructors ==
    {"MixNormal1", "MixNormal2", "MixNormal1_indep", "MixNormal2_indep",
     "MixMultiNormal1", "MixMultiNormal2", "MixMultiNormal1_indep",
     "MixMultiNormal2_indep"}

NoDraw == [loc |-> NoArray, scale |-> NoArray, probs |-> NoArray]

NoCall == [op |-> "none", n |-> 0, d |-> 0, seed |-> 0]

\* a fresh process: PYTHONHASHSEED and the TensorFlow seed unset, numpy's and
\* random's generators seeded from the operating system
InitRng ==
    rng \in [env : {<<>>}, tf : {-1}, np : States, py : States]

InitCaller ==
    /\ lastCall = NoCall
    /\ result = None
    /\ drawn = NoDraw

InitLinAlgIdle ==
    /\ data = NoArray
    /\ rotation = NoArray
    /\ x = NoArray
    /\ la_op = <<>>
    /\ data_new = None
    /\ dot_calls = 0

InitThreadsIdle ==
    /\ pc = <<>>
    /\ targs = <<>>
    /\ tlocals = <<>>
    /\ lock = "free"
    /\ serialize = FALSE

Init ==
    /\ InitRng
    /\ InitCaller
    /\ InitLinAlgIdle
    /\ InitThreadsIdle

\* the caller runs constructor 'op' to its end
Finish(op, n, d, seed, out) ==
    /\ lastCall' = [op |-> op, n |-> n, d |-> d, seed |-> seed]
    /\ result' = out.ret
    /\ drawn' = [loc |-> out.loc, scale |-> out.scale, probs |-> out.probs]
    /\ rng' = out.rng
    /\ UNCHANGED <<laVars, thVars>>

CallMixNormal1 ==
    \E n \in Components, d \in Dimensions, seed \in Seeds :
        Finish("MixNormal1", n, d, seed, MixNormal1(rng, n, d, seed))

CallMixNormal2 ==
    \E n \in Components, d \in Dimensions, seed \in Seeds :
        Finish("MixNormal2", n, d, seed, MixNormal2(rng, n, d, seed))

CallMixNormal1_indep ==
    \E n \in Components, d \in Dimensions, seed \in Seeds :
        Finish("MixNormal1_indep", n, d, seed, MixNormal1_indep(rng, n, d, seed))

CallMixNormal2_indep ==
    \E n \in Components, d \in Dimensions, seed \in Seeds :
        Finish("MixNormal2_indep", n, d, seed, MixNormal2_indep(rng, n, d, seed))

CallMixMultiNormal1 ==
    \E n \in Components, d \in Dimensions, seed \in Seeds :
        Finish("MixMultiNormal1", n, d, seed, MixMultiNormal1(rng, n, d, seed))

CallMixMultiNormal2 ==
    \E n \in Components, d \in Dimensions, seed \in Seeds :
        Finish("MixMultiNormal2", n, d, seed, MixMultiNormal2(rng, n, d, seed))

CallMixMultiNormal1_indep ==
    \E n \in Components, d \in Dimensions, seed \in Seeds :
        Finish("MixMultiNormal1_indep", n, d, seed,
               MixMultiNormal1_indep(rng, n, d, seed))

CallMixMultiNormal2_indep ==
    \E n \in Components, d \in Dimensions, seed \in Seeds :
        Finish("MixMultiNormal2_indep", n, d, seed,
               MixMultiNormal2_indep(rng, n, d, seed))

CallMixtureGaussian ==
    \E n \in Components, d \in Dimensions, seed \in Seeds :
        Finish("MixtureGaussian", n, d, seed, MixtureGaussian(rng, n, d, seed))

CallResetRandomSeeds ==
    \E seed \in ResetSeeds :
        /\ lastCall' = [op |-> "reset_random_seeds", n |-> 0, d |-> 0, seed |-> seed]
        /\ rng' = reset_random_seeds(rng, seed)
        /\ result' = None
        /\ drawn' = NoDraw
        /\ UNCHANGED <<laVars, thVars>>

CallRandCorr ==
    \E matrixSize \in Dimensions, seed \in Seeds :
        LET out == RandCorr(rng, matrixSize, seed)
        IN  /\ lastCall' = [op |-> "RandCorr", n |-> matrixSize, d |-> 0, seed |-> seed]
            /\ rng' = out.rng
            /\ result' = out.ret
            /\ drawn' = NoDraw
            /\ UNCHANGED <<laVars, thVars>>

CallRandCov ==
    \E m \in Dimensions, seed \in Seeds :
        LET out == RandCov(rng, [i \in 1..m |-> i], seed)
        IN  /\ lastCall' = [op |-> "RandCov", n |-> m, d |-> 0, seed |-> seed]
            /\ rng' = out.rng
            /\ result' = out.ret
            /\ drawn' = NoDraw
            /\ UNCHANGED <<laVars, thVars>>

\* the caller draws one more number from numpy's global generator
ExtraDraw ==
    LET s == np_random_sample(rng, <<1>>)
    IN  /\ lastCall' = [op |-> "np.random.sample", n |-> 1, d |-> 0, seed |-> 0]
        /\ rng' = s.rng
        /\ result' = s.arr
        /\ drawn' = NoDraw
        /\ UNCHANGED <<laVars, thVars>>

Next ==
    \/ CallMixNormal1
    \/ CallMixNormal2
    \/ CallMixNormal1_indep
    \/ CallMixNormal2_indep
    \/ CallMixMultiNormal1
    \/ CallMixMultiNormal2
    \/ CallMixMultiNormal1_indep
    \/ CallMixMultiNormal2_indep
    \/ CallMixtureGaussian
    \/ CallResetRandomSeeds
    \/ CallRandCorr
    \/ CallRandCov
    \/ ExtraDraw

Spec == Init /\ [][Next]_vars

(***************************************************************************)
(* Properties of the constructors and of reset_random_seeds                *)
(***************************************************************************)
\* the constructor named op, run from random state r
Construct(op, r, n, d, seed) ==
    CASE op = "MixNormal1" -> MixNormal1(r, n, d, seed)
      [] op = "MixNormal2" -> MixNormal2(r, n, d, seed)
      [] op = "MixNormal1_indep" -> MixNormal1_indep(r, n, d, seed)
      [] op = "MixNormal2_indep" -> MixNormal2_indep(r, n, d, seed)
      [] op = "MixMultiNormal1" -> MixMultiNormal1(r, n, d, seed)
      [] op = "MixMultiNormal2" -> MixMultiNormal2(r, n, d, seed)
      [] op = "MixMultiNormal1_indep" -> MixMultiNormal1_indep(r, n, d, seed)
      [] op = "MixMultiNormal2_indep" -> MixMultiNormal2_indep(r, n, d, seed)
      [] op = "MixtureGaussian" -> MixtureGaussian(r, n, d, seed)

\* the constructor an '_indep' constructor wraps
BaseOf(op) ==
    CASE op = "MixNormal1_indep" -> "MixNormal1"
      [] op = "MixNormal2_indep" -> "MixNormal2"
      [] op = "MixMultiNormal1_indep" -> "MixMultiNormal1"
      [] op = "MixMultiNormal2_indep" -> "MixMultiNormal2"

IndepConstructors ==
    {"MixNormal1_indep", "MixNormal2_indep", "MixMultiNormal1_indep",
     "MixMultiNormal2_indep"}

DistributionClasses == {"Mixture", "MixtureSameFamily", "Independent"}

ConstructorCalled == lastCall.op \in Constructors \cup {"MixtureGaussian"}

\* the k-th number numpy's generator yields after np.random.seed(seed)
Stream(seed, k) == Advance(SeedState(seed), k)

\* C1: every one of the eight constructors, for n_components >= 1,
\* n_dimensions >= 1 and any seed, completes and returns a distribution
\* object; none raises an error of its own.
C1_ConstructorsReturnDistribution ==
    lastCall.op \in Constructors =>
        /\ ~IsException(result)
        /\ result.class \in DistributionClasses

\* C2: the location, scale and weight arrays a constructor call draws are
\* those the same call draws from any other state of the process-wide
\* generators: they depend on (n_components, n_dimensions, seed) alone.
C2_ArraysDependOnlyOnArguments ==
    ConstructorCalled =>
        \A np0 \in States, py0 \in States, tf0 \in {-1} \cup Seeds :
            LET r0 == [env |-> <<>>, tf |-> tf0, np |-> np0, py |-> py0]
                other == Construct(lastCall.op, r0, lastCall.n, lastCall.d,
                                   lastCall.seed)
            IN  /\ drawn.loc = other.loc
                /\ drawn.scale = other.scale
                /\ drawn.probs = other.probs

\* a constructor call has drawn its arrays: loc and scale of shape
\* (n, d) and a weight array of n * d or n entries
C2_Witness ==
    /\ lastCall.op = "MixNormal2"
    /\ lastCall.n = 2 /\ lastCall.d = 2 /\ lastCall.seed = 1
    /\ drawn.loc.shape = <<2, 2>>
    /\ drawn.scale.shape = <<2, 2>>
    /\ drawn.probs.shape = <<2>>
    /\ drawn.scale.flat # drawn.probs.flat

\* C3: each '_indep' constructor returns Independent(...) of exactly what
\* its base constructor returns for the same arguments, built from the
\* same location, scale and weight arrays.
C3_IndepWrapsBase ==
    lastCall.op \in IndepConstructors =>
        LET base == Construct(BaseOf(lastCall.op), rng, lastCall.n, lastCall.d,
                              lastCall.seed)
        IN  /\ result = tfd_Independent(base.ret)
            /\ drawn.loc = base.loc
            /\ drawn.scale = base.scale
            /\ drawn.probs = base.probs

Entries(a) == {a.flat[i] : i \in 1..Len(a.flat)}

\* C8 as stated: every location entry lies in [0, 10) and every scale entry
\* lies in [0, 1) and is strictly positive.
C8_ScaleStrictlyPositive ==
    ConstructorCalled =>
        /\ \A e \in Entries(drawn.loc) : 0 <= e /\ e < 10 * RngMod
        /\ \A e \in Entries(drawn.scale) : 0 < e /\ e < RngMod

\* C8 amended: every location entry lies in [0, 10) and every scale entry
\* lies in [0, 1); a scale entry may be 0.
C8_ScaleInHalfOpenUnitInterval ==
    ConstructorCalled =>
        /\ drawn.loc.shape = <<lastCall.n, lastCall.d>>
        /\ drawn.scale.shape = <<lastCall.n, lastCall.d>>
        /\ Len(drawn.loc.flat) = lastCall.n * lastCall.d
        /\ Len(drawn.scale.flat) = lastCall.n * lastCall.d
        /\ \A e \in Entries(drawn.loc) : 0 <= e /\ e < 10 * RngMod
        /\ \A e \in Entries(drawn.scale) : 0 <= e /\ e < RngMod

\* a constructor call whose drawn scale array holds the entry 0
C8_Witness ==
    /\ lastCall.op \in Constructors
    /\ 0 \in Entries(drawn.scale)
    /\ \E e \in Entries(drawn.loc) : e > 0

IsDigits(s) == \A i \in 1..Len(s) : \E k \in 0..9 : s[i] = Digit(k)

\* C9: after reset_random_seeds(seed), PYTHONHASHSEED is the decimal string
\* of seed, and the TensorFlow, numpy and 'random' generators all hold the
\* state of that seed; the call returns None.
C9_ResetSetsAllFourSources ==
    lastCall.op = "reset_random_seeds" =>
        /\ Len(rng.env) >= 1
        /\ IsDigits(rng.env)
        /\ (Len(rng.env) > 1 => rng.env[1] # "0")
        /\ int(rng.env) = lastCall.seed
        /\ rng.tf = lastCall.seed
        /\ rng.np = SeedState(lastCall.seed)
        /\ rng.py = SeedState(lastCall.seed)
        /\ result = None

\* reset_random_seeds has run with a two-digit seed
C9_Witness ==
    /\ lastCall.op = "reset_random_seeds"
    /\ lastCall.seed = 12
    /\ rng.env = <<"1", "2">>
    /\ rng.tf = 12

\* C10: MixtureGaussian(ncomp, ndims, seed) returns what MixMultiNormal1
\* returns: a Mixture, not wrapped in Independent, of ncomp
\* MultivariateNormalDiag components, component i built from row i of the
\* (ncomp x ndims) location and scale arrays, with one categorical of
\* ncomp weights; the arrays are drawn after the reset in the order
\* location, scale, weights.
C10_MixtureGaussianIsMixMultiNormal1 ==
    lastCall.op = "MixtureGaussian" =>
        LET n == lastCall.n
            d == lastCall.d
            s == lastCall.seed
            same == MixMultiNormal1(rng, n, d, s)
        IN  /\ result = same.ret
            /\ rng = same.rng
            /\ drawn = [loc |-> same.loc, scale |-> same.scale, probs |-> same.probs]
            /\ result.class = "Mixture"
            /\ result.cat.class = "Categorical"
            /\ result.cat.probs =
                   Array(<<n>>, [i \in 1..n |-> Stream(s, 2 * n * d + i)])
            /\ Len(result.components) = n
            /\ \A i \in 1..n :
                   result.components[i] =
                       [class |-> "MultivariateNormalDiag",
                        loc |-> Array(<<d>>,
                                      [j \in 1..d |-> 10 * Stream(s, (i - 1) * d + j)]),
                        scale_diag |-> Array(<<d>>,
                                      [j \in 1..d |-> Stream(s, n * d + (i - 1) * d + j)])]

\* MixtureGaussian has returned a mixture of two two-dimensional components
C10_Witness ==
    /\ lastCall.op = "MixtureGaussian"
    /\ lastCall.n = 2 /\ lastCall.d = 2
    /\ result.class = "Mixture"
    /\ Len(result.components) = 2

(***************************************************************************)
(* Linear algebra: numpy's products and eigenvalues on small matrices      *)
(***************************************************************************)
\* a[i, j] of a 2-D array (i, j counted from 1)
At(a, i, j) == a.flat[(i - 1) * a.shape[2] + j]

RECURSIVE SumTo(_, _)
SumTo(f, k) == IF k = 0 THEN 0 ELSE f[k] + SumTo(f, k - 1)

\* np.transpose of a 2-D array
np_transpose(a) ==
    LET r == a.shape[1]
        c == a.shape[2]
    IN  Array(<<c, r>>,
              [k \in 1..(r * c) |-> At(a, ((k - 1) % r) + 1, ((k - 1) \div r) + 1)])

\* np.dot of two 2-D arrays; numpy raises ValueError when the inner
\* dimensions differ
np_dot(a, b) ==
    IF a.shape[2] # b.shape[1]
    THEN Raise("ValueError: shapes not aligned")
    ELSE LET r == a.shape[1]
             m == a.shape[2]
             c == b.shape[2]
         IN  Array(<<r, c>>,
                   [k \in 1..(r * c) |->
                       LET i == ((k - 1) \div c) + 1
                           j == ((k - 1) % c) + 1
                       IN  SumTo([l \in 1..m |-> At(a, i, l) * At(b, l, j)], m)])

NotTwoD == "Exception: Rottion matrix must be a 2D matrix."
NotSquare == "Exception: Rotation matrix must be square."

\* a transform that checks the number of axes only
transform_data_any_2d(dat, rot) ==
    IF Len(rot.shape) # 2 THEN [ret |-> Raise(NotTwoD), dots |-> 0]
    ELSE [ret |-> np_dot(dat, rot), dots |-> 1]

\* [ret |-> the value returned or the exception raised,
\*  dots |-> the number of np.dot products computed]
transform_data(dat, rot) ==
    IF Len(rot.shape) # 2 THEN [ret |-> Raise(NotTwoD), dots |-> 0]
    ELSE IF rot.shape[1] # rot.shape[2] THEN [ret |-> Raise(NotSquare), dots |-> 0]
    ELSE [ret |-> np_dot(dat, rot), dots |-> 1]

\* an inverse that multiplies by the rotation itself
inverse_transform_data_no_transpose(dat, rot) ==
    IF Len(rot.shape) # 2 THEN [ret |-> Raise(NotTwoD), dots |-> 0]
    ELSE IF rot.shape[1] # rot.shape[2] THEN [ret |-> Raise(NotSquare), dots |-> 0]
    ELSE [ret |-> np_dot(dat, rot), dots |-> 1]

inverse_transform_data(dat, rot) ==
    IF Len(rot.shape) # 2 THEN [ret |-> Raise(NotTwoD), dots |-> 0]
    ELSE IF rot.shape[1] # rot.shape[2] THEN [ret |-> Raise(NotSquare), dots |-> 0]
    ELSE [ret |-> np_dot(dat, np_transpose(rot)), dots |-> 1]

\* The eigenvalues of a real 1x1 or 2x2 matrix, exactly: the eigenvalue
\* (t + sign * sqrt(disc)) / 2 is kept as [t, disc, sign]; for [[a, b], [c, d]]
\* t is the trace a + d and disc = t^2 - 4 (ad - bc), negative for a complex
\* conjugate pair.
np_linalg_eigvals(m) ==
    IF m.shape = <<1, 1>>
    THEN <<[t |-> 2 * At(m, 1, 1), disc |-> 0, sign |-> 1]>>
    ELSE LET t == At(m, 1, 1) + At(m, 2, 2)
             det == At(m, 1, 1) * At(m, 2, 2) - At(m, 1, 2) * At(m, 2, 1)
             disc == t * t - 4 * det
         IN  <<[t |-> t, disc |-> disc, sign |-> 1],
               [t |-> t, disc |-> disc, sign |-> -1]>>

\* numpy's 'ev >= 0'
GreaterEqualZero(ev) ==
    IF ev.disc < 0 THEN ev.t > 0 \/ (ev.t = 0 /\ ev.sign > 0)
    ELSE IF ev.sign > 0 THEN ev.t >= 0 \/ ev.disc >= ev.t * ev.t
    ELSE ev.t >= 0 /\ ev.t * ev.t >= ev.disc

\* numpy's 'ev > 0': a real eigenvalue is compared as a real number, a
\* complex one in numpy's lexicographic order (real part first, then the
\* imaginary part)
GreaterZero(ev) ==
    IF ev.disc < 0 THEN ev.t > 0 \/ (ev.t = 0 /\ ev.sign > 0)
    ELSE IF ev.sign > 0 THEN ev.t > 0 \/ ev.disc > ev.t * ev.t
    ELSE ev.t > 0 /\ ev.t * ev.t > ev.disc

PosDefNotTwoD == "Exception: Input to is_pos_def must be a 2-dimensional array."
PosDefNotSquare == "Exception: Input to is_pos_def must be a square matrix."

Bool(b) == [class |-> "bool", val |-> b]

\* a check with 'eigvals(x) >= 0'
is_pos_def_semidefinite(m) ==
    IF Len(m.shape) # 2 THEN Raise(PosDefNotTwoD)
    ELSE IF m.shape[1] # m.shape[2] THEN Raise(PosDefNotSquare)
    ELSE LET w == np_linalg_eigvals(m)
         IN  Bool(\A i \in 1..Len(w) : GreaterEqualZero(w[i]))

is_pos_def(m) ==
    IF Len(m.shape) # 2 THEN Raise(PosDefNotTwoD)
    ELSE IF m.shape[1] # m.shape[2] THEN Raise(PosDefNotSquare)
    ELSE LET w == np_linalg_eigvals(m)
         IN  Bool(\A i \in 1..Len(w) : GreaterZero(w[i]))

(***************************************************************************)
(* The helpers applied to bounded inputs                                   *)
(***************************************************************************)
\* all arrays of a shape with entries from E
Arrays(shape, E) == {Array(shape, f) : f \in [1..Prod(shape) -> E]}

\* one array of a shape, every entry e
Filled(shape, e) == Array(shape, [i \in 1..Prod(shape) |-> e])

IsSquare2D(a) == Len(a.shape) = 2 /\ a.shape[1] = a.shape[2]

\* rot . rot^T = I
IsOrthonormal(rot) ==
    /\ IsSquare2D(rot)
    /\ \A i, j \in 1..rot.shape[1] :
           SumTo([k \in 1..rot.shape[1] |-> At(rot, i, k) * At(rot, j, k)],
                 rot.shape[1])
               = IF i = j THEN 1 ELSE 0

\* sample matrices: N rows of D variables
DataInputs ==
    UNION {Arrays(<<n, d>>, {-1, 2}) : n \in 1..MaxRows, d \in 1..MatSize}

\* square matrices: all with entries 0 and 1, and the orthonormal ones with
\* entries -1, 0 and 1
SquareInputs ==
    UNION {Arrays(<<k, k>>, {0, 1}) \cup
           {m \in Arrays(<<k, k>>, {-1, 0, 1}) : IsOrthonormal(m)} : k \in 1..MatSize}

\* arrays that are not square matrices: 0-D, 1-D, rectangular 2-D and 3-D
OtherShapes ==
    {<<>>}
    \cup {<<k>> : k \in 1..MatSize}
    \cup {<<r, c>> : r \in 1..(MatSize + 1), c \in 1..MatSize}
    \cup {<<k, k, k>> : k \in 1..MatSize}

OtherInputs == {Filled(s, 1) : s \in {s \in OtherShapes : ~IsSquare2D(Filled(s, 1))}}

RotationInputs == SquareInputs \cup OtherInputs

\* arguments of is_pos_def: the 1x1 and 2x2 matrices over a few integers, and
\* the arrays that are not square matrices
PosDefInputs ==
    Arrays(<<1, 1>>, {-1, 0, 1, 2}) \cup Arrays(<<2, 2>>, {-1, 0, 1, 2})
    \cup {Filled(<<2, 3>>, 1), Filled(<<3>>, 1), Filled(<<2, 2, 2>>, 1)}

\* a process that has not touched the random sources
InitRngIdle == rng = [env |-> <<>>, tf |-> -1, np |-> 0, py |-> 0]

InitLinAlg ==
    /\ InitRngIdle
    /\ InitCaller
    /\ InitThreadsIdle
    /\ la_op = <<>>
    /\ data_new = None
    /\ dot_calls = 0
    /\ \/ /\ data \in DataInputs
          /\ rotation \in RotationInputs
          /\ x = NoArray
       \/ /\ data = NoArray
          /\ rotation = NoArray
          /\ x \in PosDefInputs

\* the array the next helper is handed: the sample matrix, or the result of
\* the helper applied before
Operand == IF la_op = <<>> THEN data ELSE data_new

CallTransformData ==
    /\ data # NoArray
    /\ la_op \in {<<>>, <<"inverse_transform_data">>}
    /\ ~IsException(Operand)
    /\ LET out == transform_data(Operand, rotation)
       IN  /\ data_new' = out.ret
           /\ dot_calls' = dot_calls + out.dots
    /\ la_op' = Append(la_op, "transform_data")
    /\ UNCHANGED <<data, rotation, x, rngVars, thVars>>

CallInverseTransformData ==
    /\ data # NoArray
    /\ la_op \in {<<>>, <<"transform_data">>}
    /\ ~IsException(Operand)
    /\ LET out == inverse_transform_data(Operand, rotation)
       IN  /\ data_new' = out.ret
           /\ dot_calls' = dot_calls + out.dots
    /\ la_op' = Append(la_op, "inverse_transform_data")
    /\ UNCHANGED <<data, rotation, x, rngVars, thVars>>

CallIsPosDef ==
    /\ x # NoArray
    /\ la_op = <<>>
    /\ data_new' = is_pos_def(x)
    /\ la_op' = <<"is_pos_def">>
    /\ UNCHANGED <<data, rotation, x, dot_calls, rngVars, thVars>>

NextLinAlg ==
    \/ CallTransformData
    \/ CallInverseTransformData
    \/ CallIsPosDef

SpecLinAlg == InitLinAlg /\ [][NextLinAlg]_vars

(***************************************************************************)
(* Properties of the linear-algebra helpers                                *)
(***************************************************************************)
ValidationErrors == {Raise(NotTwoD), Raise(NotSquare)}

\* the matrix product a . b, entry by entry, of an (n x m) and an (m x m) matrix
Product(a, b) ==
    Array(<<a.shape[1], b.shape[2]>>,
          [k \in 1..(a.shape[1] * b.shape[2]) |->
              LET i == ((k - 1) \div b.shape[2]) + 1
                  j == ((k - 1) % b.shape[2]) + 1
              IN  SumTo([l \in 1..a.shape[2] |-> a.flat[(i - 1) * a.shape[2] + l]
                                                * b.flat[(l - 1) * b.shape[2] + j]],
                        a.shape[2])])

\* a . b^T, entry by entry
ProductWithTranspose(a, b) ==
    Array(<<a.shape[1], b.shape[1]>>,
          [k \in 1..(a.shape[1] * b.shape[1]) |->
              LET i == ((k - 1) \div b.shape[1]) + 1
                  j == ((k - 1) % b.shape[1]) + 1
              IN  SumTo([l \in 1..a.shape[2] |-> a.flat[(i - 1) * a.shape[2] + l]
                                                * b.flat[(j - 1) * b.shape[2] + l]],
                        a.shape[2])])

\* C4: transform_data and inverse_transform_data raise a validation error
\* exactly when rotation is not 2-dimensional or not square, and then no
\* matrix product has been computed; for a square 2-D rotation they raise
\* no validation error and return data . rotation and data . rotation^T
\* (numpy's own ValueError when data has another number of columns).
C4_ValidationExactlyOnBadRotation ==
    (la_op \in {<<"transform_data">>, <<"inverse_transform_data">>}) =>
        /\ (data_new \in ValidationErrors) <=> ~IsSquare2D(rotation)
        /\ Len(rotation.shape) # 2 => data_new = Raise(NotTwoD)
        /\ (Len(rotation.shape) = 2 /\ ~IsSquare2D(rotation)) => data_new = Raise(NotSquare)
        /\ data_new \in ValidationErrors => dot_calls = 0
        /\ (IsSquare2D(rotation) /\ data.shape[2] = rotation.shape[1]) =>
               /\ dot_calls = 1
               /\ data_new = IF la_op = <<"transform_data">>
                             THEN Product(data, rotation)
                             ELSE ProductWithTranspose(data, rotation)
        /\ (IsSquare2D(rotation) /\ data.shape[2] # rotation.shape[1]) =>
               /\ IsException(data_new)
               /\ data_new \notin ValidationErrors

\* inverse_transform_data has rejected a 3x2 rotation before any product
C4_Witness ==
    /\ la_op = <<"inverse_transform_data">>
    /\ rotation.shape = <<3, 2>>
    /\ data_new = Raise(NotSquare)
    /\ dot_calls = 0

\* C5: for a sample matrix X (N x D) and a square D x D orthonormal rotation
\* R, inverse_transform_data(transform_data(X, R), R) equals X.
C5_RoundTripRestoresData ==
    (la_op = <<"transform_data", "inverse_transform_data">> /\ IsOrthonormal(rotation)) =>
        data_new = data

\* the round trip through a quarter turn, which is not its own transpose
C5_Witness ==
    /\ la_op = <<"transform_data", "inverse_transform_data">>
    /\ rotation = Array(<<2, 2>>, <<0, -1, 1, 0>>)
    /\ data = Array(<<1, 2>>, <<-1, 2>>)
    /\ data_new = data
    /\ dot_calls = 2

PosDefValidationErrors == {Raise(PosDefNotTwoD), Raise(PosDefNotSquare)}

Trace(m) == IF m.shape = <<1, 1>> THEN m.flat[1] ELSE m.flat[1] + m.flat[4]

Det(m) ==
    IF m.shape = <<1, 1>> THEN m.flat[1]
    ELSE m.flat[1] * m.flat[4] - m.flat[2] * m.flat[3]

\* the eigenvalues of a 1x1 or 2x2 matrix are real
RealSpectrum(m) == m.shape = <<1, 1>> \/ Trace(m) * Trace(m) >= 4 * Det(m)

\* every eigenvalue is a strictly positive real number
AllEigenvaluesStrictlyPositive(m) ==
    /\ RealSpectrum(m)
    /\ Trace(m) > 0
    /\ Det(m) > 0

Threads == {"t1", "t2"}

\* the calls the threads make
ThreadCalls == [op : {"MixNormal2"}, n : {1}, d : {1, 2}, seed : {0, 1}]

\* callers that serialize hold one lock for the length of a call
MayEnter(t) == ~serialize \/ lock = "free"

InitThreads ==
    /\ rng \in [env : {<<>>}, tf : {-1}, np : States, py : {0}]
    /\ InitCaller
    /\ InitLinAlgIdle
    /\ pc = [t \in Threads |-> "idle"]
    /\ targs = [t \in Threads |-> NoCall]
    /\ tlocals = [t \in Threads |-> NoDraw]
    /\ lock = "free"
    /\ serialize \in BOOLEAN

Goto(t, from, to) ==
    /\ pc[t] = from
    /\ pc' = [pc EXCEPT ![t] = to]

\* the thread enters the constructor
T_Call(t) ==
    /\ MayEnter(t)
    /\ Goto(t, "idle", "environ")
    /\ \E call \in ThreadCalls : targs' = [targs EXCEPT ![t] = call]
    /\ lock' = IF serialize THEN t ELSE lock
    /\ UNCHANGED <<rng, tlocals, serialize, lastCall, result, drawn, laVars>>

\* reset_random_seeds: os.environ['PYTHONHASHSEED'] = str(seed)
T_SetHashSeed(t) ==
    /\ Goto(t, "environ", "tf")
    /\ rng' = set_PYTHONHASHSEED(rng, targs[t].seed)
    /\ UNCHANGED <<targs, tlocals, lock, serialize, lastCall, result, drawn, laVars>>

\* reset_random_seeds: tf.random.set_seed(seed)
T_SeedTensorFlow(t) ==
    /\ Goto(t, "tf", "numpy")
    /\ rng' = tf_random_set_seed(rng, targs[t].seed)
    /\ UNCHANGED <<targs, tlocals, lock, serialize, lastCall, result, drawn, laVars>>

\* reset_random_seeds: np.random.seed(seed)
T_SeedNumpy(t) ==
    /\ Goto(t, "numpy", "random")
    /\ rng' = np_random_seed(rng, targs[t].seed)
    /\ UNCHANGED <<targs, tlocals, lock, serialize, lastCall, result, drawn, laVars>>

\* reset_random_seeds: random.seed(seed)
T_SeedRandom(t) ==
    /\ Goto(t, "random", "loc")
    /\ rng' = random_seed(rng, targs[t].seed)
    /\ UNCHANGED <<targs, tlocals, lock, serialize, lastCall, result, drawn, laVars>>

\* loc = np.random.sample([n_components, n_dimensions]) * 10
T_DrawLoc(t) ==
    /\ Goto(t, "loc", "scale")
    /\ LET s == np_random_sample(rng, <<targs[t].n, targs[t].d>>)
       IN  /\ tlocals' = [tlocals EXCEPT ![t].loc = Times(s.arr, 10)]
           /\ rng' = s.rng
    /\ UNCHANGED <<targs, lock, serialize, lastCall, result, drawn, laVars>>

\* scale = np.random.sample([n_components, n_dimensions])
T_DrawScale(t) ==
    /\ Goto(t, "scale", "probs")
    /\ LET s == np_random_sample(rng, <<targs[t].n, targs[t].d>>)
       IN  /\ tlocals' = [tlocals EXCEPT ![t].scale = s.arr]
           /\ rng' = s.rng
    /\ UNCHANGED <<targs, lock, serialize, lastCall, result, drawn, laVars>>

\* probs = np.random.sample(n_components)
T_DrawProbs(t) ==
    /\ Goto(t, "probs", "return")
    /\ LET s == np_random_sample(rng, <<targs[t].n>>)
       IN  /\ tlocals' = [tlocals EXCEPT ![t].probs = s.arr]
           /\ rng' = s.rng
    /\ UNCHANGED <<targs, lock, serialize, lastCall, result, drawn, laVars>>

\* the distribution is built from the locals and returned
T_Return(t) ==
    /\ Goto(t, "return", "done")
    /\ lock' = IF serialize THEN "free" ELSE lock
    /\ UNCHANGED <<rng, targs, tlocals, serialize, lastCall, result, drawn, laVars>>

NextThreads ==
    \E t \in Threads :
        \/ T_Call(t)
        \/ T_SetHashSeed(t)
        \/ T_SeedTensorFlow(t)
        \/ T_SeedNumpy(t)
        \/ T_SeedRandom(t)
        \/ T_DrawLoc(t)
        \/ T_DrawScale(t)
        \/ T_DrawProbs(t)
        \/ T_Return(t)

SpecThreads == InitThreads /\ [][NextThreads]_vars

\* the arrays the call of thread t draws when it runs alone
AloneArrays(t) ==
    LET alone == Construct(targs[t].op, [env |-> <<>>, tf |-> -1, np |-> 0, py |-> 0],
                           targs[t].n, targs[t].d, targs[t].seed)
    IN  [loc |-> alone.loc, scale |-> alone.scale, probs |-> alone.probs]

\* C7: the reset-then-draw sequence of a constructor call is not atomic:
\* without serialization some interleaving of two calls gives a call other
\* arrays than it draws alone (the state C7_Witness); when the callers
\* serialize their calls, every call gets the arrays of the run alone.
C7_SerializedCallsGetOwnArrays ==
    serialize =>
        \A t \in Threads : pc[t] = "done" => tlocals[t] = AloneArrays(t)

\* two unserialized calls have interleaved and one has finished with arrays
\* it would not draw alone
C7_Witness ==
    /\ ~serialize
    /\ \A t \in Threads : pc[t] = "done"
    /\ \E t \in Threads : tlocals[t] # AloneArrays(t)

(***************************************************************************)
(* RandCorr and RandCov and the process-wide random state                  *)
(***************************************************************************)
\* the matrix RandCorr returns for (matrixSize, seed), from the arguments alone
CorrOf(matrixSize, seed) ==
    [class |-> "ndarray", of |-> "Vnorm", size |-> matrixSize,
     random_state |-> seed % RngMod,
     V |-> [class |-> "ndarray", of |-> "spd", shape |-> <<matrixSize, matrixSize>>,
            uniforms |-> [k \in 1..(matrixSize * matrixSize + matrixSize) |->
                             Stream(seed, k)]]]

\* C11: every call of RandCorr, and so of RandCov, leaves numpy's global
\* generator in the state of the constant seed 0, whatever seed was passed
\* and whatever state the generator was in, and leaves the TensorFlow seed,
\* the 'random' generator and PYTHONHASHSEED as they were; the matrix
\* returned depends on (matrixSize, seed) alone.
C11_RandCorrReseedsNumpyWithZero ==
    [][lastCall'.op \in {"RandCorr", "RandCov"} =>
          /\ rng'.np = 0 % RngMod
          /\ rng'.tf = rng.tf
          /\ rng'.py = rng.py
          /\ rng'.env = rng.env
          /\ lastCall'.op = "RandCorr" =>
                 result' = CorrOf(lastCall'.n, lastCall'.seed)
          /\ lastCall'.op = "RandCov" =>
                 /\ result'.corr = CorrOf(lastCall'.n, lastCall'.seed)
                 /\ Len(result'.std) = lastCall'.n]_vars

\* RandCov has run with seed 3 in a process reset before with seed 12: numpy
\* holds the state of seed 0, the other three sources still hold seed 12
C11_Witness ==
    /\ lastCall.op = "RandCov"
    /\ lastCall.seed = 3
    /\ lastCall.n = 2
    /\ rng.np = 0
    /\ rng.tf = 12
    /\ rng.env = <<"1", "2">>
    /\ rng.py = SeedState(12)
    /\ result.corr = CorrOf(2, 3)

=============================================================================
